---- MODULE Spec2Model ----
(***************************************************************************)
(* Model of static/js/app.js, the browser client of the Flickr downloader: *)
(* the module globals (userNsid, userAlbums, currentJobId, eventSource),   *)
(* the DOM nodes the download handlers write, the HTTP requests in flight  *)
(* and the EventSource objects the client has opened.                      *)
(*                                                                         *)
(* JavaScript runs one handler at a time, so every action below is one run *)
(* of a handler between two awaits: the synchronous prefix of an async     *)
(* function up to its fetch, or the continuation after the response.       *)
(* The server is the environment: it answers requests and pushes stream    *)
(* events in any order.                                                    *)
(***************************************************************************)
EXTENDS Integers, Sequences, FiniteSets

\* ------------------------------------------------------------------ bounds

\* Job ids the server hands out (1..MaxJobs); the next start is refused after.
MaxJobs == 2
\* Lines the environment (log events, failed cancels) may add to the log of one
\* download.
MaxLog == 2

\* ------------------------------------------------------------------ values

\* JavaScript null, for the variables that otherwise hold a job id or an nsid.
Null == 0

JobIds == 1..MaxJobs

\* data.nsid of a resolved user.
Nsids == {1}

\* data.albums of a resolved user: no album, one album, two albums.
Album(id, title) == [id |-> id, title |-> title]

AlbumLists == {<<>>, <<Album(11, "a")>>, <<Album(11, "a"), Album(12, "b")>>}

\* What the user may have typed into a count field: nothing, a word, zero, minus
\* zero, a positive and a negative number, a number after white space, a number
\* followed by a letter, and a hexadecimal number.
CountTexts ==
    {<<>>, <<"x">>, <<"0">>, <<"-", "0">>, <<"5">>, <<"-", "5">>, <<" ", "5">>,
     <<"5", "x">>, <<"0", "x", "5">>}

Tabs == {"interestingness", "search", "user-album"}
UserModes == {"photostream", "album"}

\* ------------------------------------------------------------------ state

VARIABLES
    userNsid,            \* let userNsid (line 3)
    userAlbums,          \* let userAlbums (line 4)
    currentJobId,        \* let currentJobId (line 5)
    eventSource,         \* let eventSource (line 6): the job id of the referenced EventSource, or Null
    esOpen,              \* the EventSource objects whose readyState is not CLOSED, by job id
    lookupBtnDisabled,   \* #lookup-btn.disabled: a user lookup is in flight
    downloadBtnDisabled, \* #download-btn.disabled
    cancelBtnDisabled,   \* #cancel-btn.disabled
    logOutput,           \* #log-output.textContent, as its sequence of lines
    progressBar,         \* #progress-bar.style.width, in percent
    progressStatus,      \* #progress-status.textContent
    downloadLink,        \* #download-link-wrap: the job id in the link's href, or Null
    alertShown,          \* the alert() dialog on screen, or "none"; it blocks every handler
    net,                 \* the HTTP requests sent and not yet answered (equal requests count once)
    nextJobId,           \* server: the id the next accepted job gets
    lastHandled,         \* the last event onmessage handled since the latest download began
    terminalCount        \* how many terminal events onmessage handled since then

vars == <<userNsid, userAlbums, currentJobId, eventSource, esOpen, lookupBtnDisabled,
          downloadBtnDisabled, cancelBtnDisabled, logOutput, progressBar,
          progressStatus, downloadLink, alertShown, net, nextJobId, lastHandled,
          terminalCount>>

userVars == <<userNsid, userAlbums, lookupBtnDisabled>>
domVars == <<logOutput, progressBar, progressStatus, downloadLink>>
btnVars == <<downloadBtnDisabled, cancelBtnDisabled>>
streamVars == <<eventSource, esOpen, lastHandled, terminalCount>>

\* ------------------------------------------------------------------ parseInt

\* The digits of radix 16 in order of value; the first ten are the decimal digits.
DigitChars == <<"0", "1", "2", "3", "4", "5", "6", "7", "8", "9",
                "a", "b", "c", "d", "e", "f">>

UpperDigitChars == <<"0", "1", "2", "3", "4", "5", "6", "7", "8", "9",
                     "A", "B", "C", "D", "E", "F">>

IsDigit(c, radix) ==
    \E k \in 1..radix : DigitChars[k] = c \/ UpperDigitChars[k] = c

DigitVal(c) ==
    (CHOOSE k \in 1..Len(DigitChars) : DigitChars[k] = c \/ UpperDigitChars[k] = c) - 1

\* parseInt step 1: the input without its leading white space.
RECURSIVE TrimLeft(_)
TrimLeft(s) ==
    IF s # <<>> /\ Head(s) = " " THEN TrimLeft(Tail(s)) ELSE s

\* The longest prefix of s made of digits of the radix (parseInt's Z).
RECURSIVE DigitPrefix(_, _)
DigitPrefix(s, radix) ==
    IF s # <<>> /\ IsDigit(Head(s), radix)
    THEN <<Head(s)>> \o DigitPrefix(Tail(s), radix)
    ELSE <<>>

\* The mathematical value of the digit string z in the given radix.
RECURSIVE DigitsValue(_, _)
DigitsValue(z, radix) ==
    IF z = <<>> THEN 0
    ELSE DigitsValue(SubSeq(z, 1, Len(z) - 1), radix) * radix + DigitVal(z[Len(z)])

\* parseInt(string) with no radix argument: white space is skipped, a sign is read,
\* a 0x prefix selects radix 16, the digits up to the first non-digit are the value,
\* and no digit at all is NaN.
parseInt(text) ==
    LET s == TrimLeft(text)
        negative == s # <<>> /\ Head(s) = "-"
        unsigned == IF s # <<>> /\ Head(s) \in {"-", "+"} THEN Tail(s) ELSE s
        hex == Len(unsigned) >= 2 /\ unsigned[1] = "0" /\ unsigned[2] \in {"x", "X"}
        body == IF hex THEN Tail(Tail(unsigned)) ELSE unsigned
        radix == IF hex THEN 16 ELSE 10
        z == DigitPrefix(body, radix)
    IN IF z = <<>> THEN [isNaN |-> TRUE, val |-> 0]
       ELSE [isNaN |-> FALSE,
             val |-> IF negative THEN 0 - DigitsValue(z, radix) ELSE DigitsValue(z, radix)]

\* parseInt(text) || fallback: NaN, 0 and -0 are falsy.
ParseIntOr(text, fallback) ==
    LET n == parseInt(text)
    IN IF n.isNaN \/ n.val = 0 THEN fallback ELSE n.val

\* String(i) for an integer i >= 0: the value of an <option> of #album-select,
\* which lookupUser sets to the album's index (opt.value = i).
RECURSIVE StringOf(_)
StringOf(i) ==
    IF i < 10 THEN <<DigitChars[i + 1]>>
    ELSE StringOf(i \div 10) \o <<DigitChars[(i % 10) + 1]>>

\* The values #album-select can have: "" when it has no option, else the value of
\* one of the options lookupUser built, option i (from 0) for userAlbums[i].
AlbumSelectValues(albums) ==
    IF albums = <<>> THEN {<<>>} ELSE {StringOf(i) : i \in 0..(Len(albums) - 1)}

\* ------------------------------------------------------------------ gatherParams

DefaultIntCount == 500
DefaultSearchCount == 100
DefaultUserCount == 500

\* The JSON body of /api/download/start: tab_type and the fields named in present.
\* The fields no handler below reads back (size_key, embed_metadata,
\* filename_template, date, text, tags, tag_mode, sort, license_ids) are left out.
Params(tab_type, present, count, user_id, user_nsid, album_id, album_title) ==
    [tab_type |-> tab_type, present |-> present, count |-> count, user_id |-> user_id,
     user_nsid |-> user_nsid, album_id |-> album_id, album_title |-> album_title]

\* gatherParams' return null.
NullParams == Params("null", {}, 0, Null, Null, 0, "")

NoAlert == "none"

\* gatherParams without the check that a user was looked up.
gatherParamsNoUserCheck(tab, mode, countText, albumValue) ==
    IF tab = "interestingness" THEN
        [alert |-> NoAlert,
         params |-> Params("interestingness",
                           {"count"} \cup (IF userNsid # Null THEN {"user_id"} ELSE {}),
                           ParseIntOr(countText, DefaultIntCount), userNsid, Null, 0, "")]
    ELSE IF tab = "search" THEN
        [alert |-> NoAlert,
         params |-> Params("search",
                           {"count"} \cup (IF userNsid # Null THEN {"user_id"} ELSE {}),
                           ParseIntOr(countText, DefaultSearchCount), userNsid, Null, 0, "")]
    ELSE IF tab = "user-album" THEN
        IF FALSE THEN
            [alert |-> "Look up a user first.", params |-> NullParams]
        ELSE IF mode = "photostream" THEN
            [alert |-> NoAlert,
             params |-> Params("user_photostream", {"user_nsid", "count"},
                               ParseIntOr(countText, DefaultUserCount), Null, userNsid, 0, "")]
        ELSE
            LET idx == parseInt(albumValue)
            IN IF idx.isNaN \/ idx.val < 0 \/ idx.val >= Len(userAlbums) THEN
                   [alert |-> "Select an album first.", params |-> NullParams]
               ELSE
                   [alert |-> NoAlert,
                    params |-> Params("album", {"user_nsid", "album_id", "album_title"},
                                      0, Null, userNsid,
                                      userAlbums[idx.val + 1].id,
                                      userAlbums[idx.val + 1].title)]
    ELSE
        [alert |-> NoAlert, params |-> Params("none", {}, 0, Null, Null, 0, "")]

\* gatherParams(): the form is read as tab (the active tab), mode (the checked
\* user-mode radio), countText (the value of the active tab's count field) and
\* albumValue (the value of #album-select). The result is the params object, or
\* NullParams with the alert shown.
gatherParams(tab, mode, countText, albumValue) ==
    IF tab = "interestingness" THEN
        [alert |-> NoAlert,
         params |-> Params("interestingness",
                           {"count"} \cup (IF userNsid # Null THEN {"user_id"} ELSE {}),
                           ParseIntOr(countText, DefaultIntCount), userNsid, Null, 0, "")]
    ELSE IF tab = "search" THEN
        [alert |-> NoAlert,
         params |-> Params("search",
                           {"count"} \cup (IF userNsid # Null THEN {"user_id"} ELSE {}),
                           ParseIntOr(countText, DefaultSearchCount), userNsid, Null, 0, "")]
    ELSE IF tab = "user-album" THEN
        IF userNsid = Null THEN
            [alert |-> "Look up a user first.", params |-> NullParams]
        ELSE IF mode = "photostream" THEN
            [alert |-> NoAlert,
             params |-> Params("user_photostream", {"user_nsid", "count"},
                               ParseIntOr(countText, DefaultUserCount), Null, userNsid, 0, "")]
        ELSE
            LET idx == parseInt(albumValue)
            IN IF idx.isNaN \/ idx.val < 0 \/ idx.val >= Len(userAlbums) THEN
                   [alert |-> "Select an album first.", params |-> NullParams]
               ELSE
                   [alert |-> NoAlert,
                    params |-> Params("album", {"user_nsid", "album_id", "album_title"},
                                      0, Null, userNsid,
                                      userAlbums[idx.val + 1].id,
                                      userAlbums[idx.val + 1].title)]
    ELSE
        [alert |-> NoAlert, params |-> Params("none", {}, 0, Null, Null, 0, "")]

\* ------------------------------------------------------------------ requests

\* An HTTP request in flight: kind is "resolve" (/api/resolve-user), "start"
\* (/api/download/start, with its body) or "cancel" (/api/download/cancel/<job>).
Request(kind, params, job) == [kind |-> kind, params |-> params, job |-> job]

ResolveRequest == Request("resolve", NullParams, Null)
StartRequest(params) == Request("start", params, Null)
CancelRequest(job) == Request("cancel", NullParams, job)

InFlight(kind) == {r \in net : r.kind = kind}

Send(r) == net \cup {r}
Answered(r) == net \ {r}

\* ------------------------------------------------------------------ stream events

Messages == {"m"}

Event(type, current, total, message, file_ready, job_id) ==
    [type |-> type, current |-> current, total |-> total, message |-> message,
     file_ready |-> file_ready, job_id |-> job_id]

\* The (current, total) pairs of the progress events the server pushes.
ProgressPairs == {<<1, 3>>, <<3, 3>>}

\* The event.data the stream can carry: the six kinds of the protocol. A complete
\* event carries no message here, so 'Done.' is logged.
Events ==
    {Event("progress", p[1], p[2], "", FALSE, Null) : p \in ProgressPairs}
    \cup {Event("log", 0, 0, m, FALSE, Null) : m \in Messages}
    \cup {Event("zipping", 0, 0, "", FALSE, Null)}
    \cup {Event("complete", 0, 0, "", f, j) : f \in BOOLEAN, j \in JobIds}
    \cup {Event("error", 0, 0, m, FALSE, Null) : m \in Messages}
    \cup {Event("cancelled", 0, 0, "", FALSE, Null)}

\* No event handled yet.
NoEvent == Event("none", 0, 0, "", FALSE, Null)

TerminalTypes == {"complete", "error", "cancelled"}

IsTerminal(ev) == ev.type \in TerminalTypes

\* ------------------------------------------------------------------ DOM helpers

Status(text, current, total) == [text |-> text, current |-> current, total |-> total]

Line(prefix, message) == [prefix |-> prefix, message |-> message]

\* Math.round((current / total) * 100) for current >= 0, total > 0.
Percent(current, total) == (200 * current + total) \div (2 * total)

\* setRunning with the negation on the cancel button lost.
setRunningSameFlag(running) ==
    /\ downloadBtnDisabled' = running
    /\ cancelBtnDisabled' = running

\* setRunning(running)
setRunning(running) ==
    /\ downloadBtnDisabled' = running
    /\ cancelBtnDisabled' = ~running

\* appendLog(msg)
appendLog(line) == logOutput' = Append(logOutput, line)

\* The global set to null without close(): the object stays open.
dropEventSource ==
    /\ esOpen' = esOpen
    /\ eventSource' = Null

\* eventSource.close(); eventSource = null;  The object closed is the one the global
\* references; on a null reference close() throws and nothing is left to assign.
closeEventSource ==
    /\ esOpen' = esOpen \ {eventSource}
    /\ eventSource' = Null

\* ------------------------------------------------------------------ initial state

\* The page as served: no download running, so #download-btn is enabled and
\* #cancel-btn is disabled; the log, the progress bar and the link are empty.
InitDom ==
    /\ lookupBtnDisabled = FALSE
    /\ downloadBtnDisabled = FALSE
    /\ cancelBtnDisabled = TRUE
    /\ logOutput = <<>>
    /\ progressBar = 0
    /\ progressStatus = Status("", 0, 0)
    /\ downloadLink = Null
    /\ alertShown = NoAlert

Init ==
    /\ userNsid = Null
    /\ userAlbums = <<>>
    /\ currentJobId = Null
    /\ eventSource = Null
    /\ esOpen = {}
    /\ net = {}
    /\ nextJobId = 1
    /\ lastHandled = NoEvent
    /\ terminalCount = 0
    /\ InitDom

\* alert() is modal: while its dialog is on screen no handler of the page runs.
NoDialog == alertShown = NoAlert

\* The user dismisses the alert() dialog and gatherParams returns null.
dismissAlert ==
    /\ alertShown # NoAlert
    /\ alertShown' = NoAlert
    /\ UNCHANGED <<userVars, currentJobId, streamVars, btnVars, domVars, net, nextJobId>>

\* ------------------------------------------------------------------ lookupUser

\* lookupUser() with an empty #user-input: the resolved user is forgotten.
lookupUserEmpty ==
    /\ NoDialog
    /\ ~lookupBtnDisabled
    /\ userNsid' = Null
    /\ userAlbums' = <<>>
    /\ UNCHANGED <<lookupBtnDisabled, currentJobId, streamVars, btnVars, domVars,
                   alertShown, net, nextJobId>>

\* lookupUser() with a name typed, up to the await of fetch('/api/resolve-user').
lookupUser ==
    /\ NoDialog
    /\ ~lookupBtnDisabled
    /\ lookupBtnDisabled' = TRUE
    /\ net' = Send(ResolveRequest)
    /\ UNCHANGED <<userNsid, userAlbums, currentJobId, streamVars, btnVars, domVars,
                   alertShown, nextJobId>>

\* lookupUser() after the response, data = {nsid, albums}: the user is stored and
\* #album-select is rebuilt, one option per album.
lookupUserResolved(nsid, albums) ==
    /\ NoDialog
    /\ ResolveRequest \in InFlight("resolve")
    /\ net' = Answered(ResolveRequest)
    /\ userNsid' = nsid
    /\ userAlbums' = albums
    /\ lookupBtnDisabled' = FALSE
    /\ UNCHANGED <<currentJobId, streamVars, btnVars, domVars, alertShown, nextJobId>>

\* lookupUser() after a response with data.error, or after fetch threw: only the
\* status line and the button change.
lookupUserFailed ==
    /\ NoDialog
    /\ ResolveRequest \in InFlight("resolve")
    /\ net' = Answered(ResolveRequest)
    /\ lookupBtnDisabled' = FALSE
    /\ UNCHANGED <<userNsid, userAlbums, currentJobId, streamVars, btnVars, domVars,
                   alertShown, nextJobId>>

\* ------------------------------------------------------------------ startDownload

\* The reset that leaves the previous download's link in place.
resetProgressKeepLink ==
    /\ logOutput' = <<>>
    /\ progressBar' = 0
    /\ progressStatus' = Status("Starting...", 0, 0)
    /\ downloadLink' = downloadLink

\* startDownload's reset of the log, the progress bar, the status and the link.
resetProgress ==
    /\ logOutput' = <<>>
    /\ progressBar' = 0
    /\ progressStatus' = Status("Starting...", 0, 0)
    /\ downloadLink' = Null

\* startDownload() up to the await of fetch('/api/download/start'). The click
\* reaches the handler only while #download-btn is enabled.
startDownload(tab, mode, countText, albumValue) ==
    /\ NoDialog
    /\ ~downloadBtnDisabled
    /\ LET g == gatherParams(tab, mode, countText, albumValue)
       IN IF g.params = NullParams THEN
              /\ alertShown' = g.alert
              /\ UNCHANGED <<userVars, currentJobId, streamVars, btnVars, domVars, net,
                             nextJobId>>
          ELSE
              /\ resetProgress
              /\ setRunning(TRUE)
              /\ net' = Send(StartRequest(g.params))
              /\ lastHandled' = NoEvent
              /\ terminalCount' = 0
              /\ UNCHANGED <<userVars, currentJobId, eventSource, esOpen, alertShown,
                             nextJobId>>

\* startDownload() after the response, data = {job_id}: the id is stored and the
\* progress stream is opened. The server gives each job a fresh id.
startDownloadAccepted(r) ==
    /\ NoDialog
    /\ r \in InFlight("start")
    /\ nextJobId <= MaxJobs
    /\ net' = Answered(r)
    /\ nextJobId' = nextJobId + 1
    /\ currentJobId' = nextJobId
    /\ eventSource' = nextJobId
    /\ esOpen' = esOpen \cup {nextJobId}
    /\ UNCHANGED <<userVars, btnVars, domVars, alertShown, lastHandled, terminalCount>>

\* The error response handled without setRunning(false).
startDownloadRejectedStillRunning(r, message) ==
    /\ NoDialog
    /\ r \in InFlight("start")
    /\ net' = Answered(r)
    /\ appendLog(Line("Error: ", message))
    /\ UNCHANGED <<userVars, currentJobId, streamVars, btnVars, progressBar,
                   progressStatus, downloadLink, alertShown, nextJobId>>

\* startDownload() after the response, data = {error}.
startDownloadRejected(r, message) ==
    /\ NoDialog
    /\ r \in InFlight("start")
    /\ net' = Answered(r)
    /\ appendLog(Line("Error: ", message))
    /\ setRunning(FALSE)
    /\ UNCHANGED <<userVars, currentJobId, streamVars, progressBar, progressStatus,
                   downloadLink, alertShown, nextJobId>>

\* startDownload()'s catch: fetch or resp.json() threw.
startDownloadThrew(r, message) ==
    /\ NoDialog
    /\ r \in InFlight("start")
    /\ net' = Answered(r)
    /\ appendLog(Line("Error: ", message))
    /\ setRunning(FALSE)
    /\ UNCHANGED <<userVars, currentJobId, streamVars, progressBar, progressStatus,
                   downloadLink, alertShown, nextJobId>>

\* ------------------------------------------------------------------ the progress stream

\* case 'complete', 'error', 'cancelled': the line logged and the status shown.
TerminalLine(ev) ==
    IF ev.type = "complete" THEN Line("", IF ev.message = "" THEN "Done." ELSE ev.message)
    ELSE IF ev.type = "error" THEN Line("Error: ", ev.message)
    ELSE Line("", "Operation cancelled.")

TerminalStatus(ev) ==
    IF ev.type = "complete" THEN Status("Done", 0, 0)
    ELSE IF ev.type = "error" THEN Status("Failed", 0, 0)
    ELSE Status("Cancelled", 0, 0)

\* The terminal cases of the switch.
onTerminal(ev) ==
    /\ appendLog(TerminalLine(ev))
    /\ progressStatus' = TerminalStatus(ev)
    /\ downloadLink' = IF ev.type = "complete" /\ ev.file_ready THEN ev.job_id
                       ELSE downloadLink
    /\ setRunning(FALSE)
    /\ closeEventSource
    /\ UNCHANGED progressBar

\* The cases 'progress', 'log', 'zipping', and a type with no case.
onUpdate(ev) ==
    /\ progressBar' = IF ev.type = "progress" THEN Percent(ev.current, ev.total)
                      ELSE progressBar
    /\ progressStatus' = IF ev.type = "progress" THEN Status("photos", ev.current, ev.total)
                         ELSE IF ev.type = "zipping" THEN Status("Creating zip file...", 0, 0)
                         ELSE progressStatus
    /\ logOutput' = IF ev.type = "log" THEN Append(logOutput, Line("", ev.message))
                    ELSE logOutput
    /\ UNCHANGED <<downloadLink, btnVars, eventSource, esOpen>>

\* eventSource.onmessage of the EventSource opened for job: the browser delivers a
\* message only to an object that is not closed.
onmessage(job, ev) ==
    /\ NoDialog
    /\ job \in esOpen
    /\ ev.type = "log" => Len(logOutput) < MaxLog
    /\ IF IsTerminal(ev) THEN onTerminal(ev) ELSE onUpdate(ev)
    /\ lastHandled' = ev
    /\ terminalCount' = IF IsTerminal(ev) THEN terminalCount + 1 ELSE terminalCount
    /\ UNCHANGED <<userVars, currentJobId, alertShown, net, nextJobId>>

\* onerror that also asks the server to cancel the job.
onerrorCancels(job) ==
    /\ NoDialog
    /\ job \in esOpen
    /\ appendLog(Line("", "Connection lost."))
    /\ setRunning(FALSE)
    /\ closeEventSource
    /\ net' = IF currentJobId = Null THEN net ELSE Send(CancelRequest(currentJobId))
    /\ UNCHANGED <<userVars, currentJobId, lastHandled, terminalCount, progressBar,
                   progressStatus, downloadLink, alertShown, nextJobId>>

\* eventSource.onerror of the EventSource opened for job: the connection failed.
onerror(job) ==
    /\ NoDialog
    /\ job \in esOpen
    /\ appendLog(Line("", "Connection lost."))
    /\ setRunning(FALSE)
    /\ closeEventSource
    /\ UNCHANGED <<userVars, currentJobId, lastHandled, terminalCount, progressBar,
                   progressStatus, downloadLink, alertShown, net, nextJobId>>

\* ------------------------------------------------------------------ cancelDownload

\* cancelDownload() up to the await of fetch('/api/download/cancel/<id>'). The
\* click reaches the handler only while #cancel-btn is enabled.
cancelDownload ==
    /\ NoDialog
    /\ ~cancelBtnDisabled
    /\ IF currentJobId = Null THEN
           UNCHANGED vars
       ELSE
           /\ progressStatus' = Status("Cancelling...", 0, 0)
           /\ net' = Send(CancelRequest(currentJobId))
           /\ UNCHANGED <<userVars, currentJobId, streamVars, btnVars, logOutput,
                          progressBar, downloadLink, alertShown, nextJobId>>

\* cancelDownload that takes the answer as the end of the download.
cancelDownloadReturnedStops(r) ==
    /\ NoDialog
    /\ r \in InFlight("cancel")
    /\ net' = Answered(r)
    /\ setRunning(FALSE)
    /\ UNCHANGED <<userVars, currentJobId, streamVars, domVars, alertShown, nextJobId>>

\* cancelDownload() after the fetch resolved, whatever the response says.
cancelDownloadReturned(r) ==
    /\ NoDialog
    /\ r \in InFlight("cancel")
    /\ net' = Answered(r)
    /\ UNCHANGED <<userVars, currentJobId, streamVars, btnVars, domVars, alertShown,
                   nextJobId>>

\* cancelDownload()'s catch: the fetch threw.
cancelDownloadThrew(r, message) ==
    /\ NoDialog
    /\ r \in InFlight("cancel")
    /\ Len(logOutput) < MaxLog
    /\ net' = Answered(r)
    /\ appendLog(Line("Cancel error: ", message))
    /\ UNCHANGED <<userVars, currentJobId, streamVars, btnVars, progressBar,
                   progressStatus, downloadLink, alertShown, nextJobId>>

\* ------------------------------------------------------------------ specification

\* The form values gatherParams reads: the user-mode radios on the User/Album tab
\* only, #album-select in album mode only, and a count field in every other case.
\* A field that is not read is given one value.
ModesRead(tab) == IF tab = "user-album" THEN UserModes ELSE {"photostream"}

CountTextsRead(tab, mode) ==
    IF tab = "user-album" /\ mode = "album" THEN {<<>>} ELSE CountTexts

AlbumValuesRead(tab, mode) ==
    IF tab = "user-album" /\ mode = "album" THEN AlbumSelectValues(userAlbums)
    ELSE {<<>>}

Next ==
    \/ dismissAlert
    \/ lookupUserEmpty
    \/ lookupUser
    \/ \E nsid \in Nsids, albums \in AlbumLists : lookupUserResolved(nsid, albums)
    \/ lookupUserFailed
    \/ \E tab \in Tabs : \E mode \in ModesRead(tab) :
          \E countText \in CountTextsRead(tab, mode),
             albumValue \in AlbumValuesRead(tab, mode) :
            startDownload(tab, mode, countText, albumValue)
    \/ \E r \in InFlight("start") : startDownloadAccepted(r)
    \/ \E r \in InFlight("start"), m \in Messages : startDownloadRejected(r, m)
    \/ \E r \in InFlight("start"), m \in Messages : startDownloadThrew(r, m)
    \/ \E job \in JobIds, ev \in Events : onmessage(job, ev)
    \/ \E job \in JobIds : onerror(job)
    \/ cancelDownload
    \/ \E r \in InFlight("cancel") : cancelDownloadReturned(r)
    \/ \E r \in InFlight("cancel"), m \in Messages : cancelDownloadThrew(r, m)

Spec == Init /\ [][Next]_vars

\* ------------------------------------------------------------------ properties

\* The running state setRunning(true) establishes.
Running == downloadBtnDisabled /\ ~cancelBtnDisabled

\* A request to /api/download/start is in flight.
StartPending == InFlight("start") # {}

\* A step in which onmessage handled an event, and one in which it handled a
\* terminal event.
EventHandled == <<lastHandled, terminalCount>>' # <<lastHandled, terminalCount>>
TerminalHandled == terminalCount' = terminalCount + 1

\* C1: every download whose progress stream was opened is observed up to exactly
\* one terminal event: the client stops observing (the global eventSource goes
\* from an object to null) only in a step that handled complete, error or
\* cancelled, and it handles at most one of them per download.
C1_StreamEndsInOneTerminal ==
    /\ [](terminalCount <= 1)
    /\ [][(eventSource # Null /\ eventSource' = Null)
            => (TerminalHandled /\ IsTerminal(lastHandled') /\ terminalCount' = 1)]_vars

\* C2: once a terminal event was handled the subscription is over. The handler
\* that handled it closed the EventSource and set the global to null in the same
\* step; from then until the next download begins no event is handled (the
\* terminal event stays the last one handled), the progress bar, the status text
\* and the buttons stay as they are, and the log changes only when a cancel
\* request is answered.
C2_TerminalEndsSubscription ==
    /\ [](terminalCount > 0 =>
            /\ terminalCount = 1
            /\ IsTerminal(lastHandled)
            /\ eventSource = Null
            /\ esOpen = {})
    /\ [][TerminalHandled => (eventSource' = Null /\ esOpen' = esOpen \ {eventSource})]_vars
    /\ [][(terminalCount > 0 /\ terminalCount' > 0) =>
            /\ ~EventHandled
            /\ UNCHANGED <<progressBar, progressStatus, btnVars>>
            /\ (logOutput' # logOutput => InFlight("cancel") # {r \in net' : r.kind = "cancel"})]_vars

\* C2's case: cancelled was handled and the stream is closed.
C2_Witness ==
    /\ terminalCount = 1
    /\ lastHandled.type = "cancelled"
    /\ eventSource = Null
    /\ esOpen = {}

\* C3: closing the progress stream sends nothing: in a step that closes an
\* EventSource no request is added to those in flight; and a cancel request is
\* added only by a cancelDownload step.
C3_CloseSendsNothing ==
    /\ [][(esOpen' # esOpen /\ esOpen' \subseteq esOpen) => net' \subseteq net]_vars
    /\ [][({r \in net' : r.kind = "cancel"} \ net # {}) => cancelDownload]_vars

\* C3's case: the stream of a job was closed by onerror and no cancel request for
\* the job is in flight.
C3_Witness ==
    /\ currentJobId # Null
    /\ eventSource = Null
    /\ esOpen = {}
    /\ ~StartPending
    /\ terminalCount = 0
    /\ logOutput # <<>>
    /\ logOutput[Len(logOutput)] = Line("", "Connection lost.")
    /\ InFlight("cancel") = {}

InvalidRequest(tab, mode, albumValue) ==
    /\ tab = "user-album"
    /\ \/ userNsid = Null
       \/ /\ mode = "album"
          /\ albumValue \notin {StringOf(i) : i \in 0..(Len(userAlbums) - 1)}

\* C5: an invalid request starts nothing. No start request in flight is for the
\* User/Album tab without a user, or for an album without an album id; and a
\* startDownload step on an invalid form leaves the requests in flight, the
\* streams, the buttons, currentJobId, the log, the progress bar, the status and
\* the download link unchanged.
C5_InvalidRequestStartsNothing ==
    /\ [](\A r \in InFlight("start") :
            /\ r.params # NullParams
            /\ r.params.tab_type \in {"user_photostream", "album"}
                 => ("user_nsid" \in r.params.present /\ r.params.user_nsid # Null)
            /\ r.params.tab_type = "album"
                 => ("album_id" \in r.params.present
                     /\ \E albums \in AlbumLists : \E k \in 1..Len(albums) :
                          albums[k].id = r.params.album_id))
    /\ [][(\E tab \in Tabs, mode \in UserModes, countText \in CountTexts,
              albumValue \in AlbumSelectValues(userAlbums) :
                /\ InvalidRequest(tab, mode, albumValue)
                /\ startDownload(tab, mode, countText, albumValue))
            => UNCHANGED <<net, streamVars, btnVars, currentJobId, domVars, userVars>>]_vars

\* C5's case: an earlier download completed and left its link; then startDownload
\* ran on an invalid form and showed its alert.
C5_Witness ==
    /\ alertShown # NoAlert
    /\ downloadLink # Null
    /\ ~Running
    /\ net = {}

\* C6: every start request that carries a count carries a positive one.
C6_CountPositive ==
    \A r \in InFlight("start") : "count" \in r.params.present => r.params.count > 0

\* C7: the download link is there only when the last event handled since the
\* latest download began is a complete with file_ready true, and it names the
\* job_id of that event; then nothing is running, pending or streaming.
C7_LinkOnlyAfterComplete ==
    downloadLink # Null =>
        /\ lastHandled.type = "complete"
        /\ lastHandled.file_ready
        /\ downloadLink = lastHandled.job_id
        /\ terminalCount = 1
        /\ ~Running
        /\ ~StartPending
        /\ eventSource = Null

\* C7's case: a second download completed with file_ready true.
C7_Witness ==
    /\ downloadLink # Null
    /\ currentJobId # Null
    /\ currentJobId > 1

\* C8: when the server answers a start request without creating a job (an error
\* response, or the request throws), no stream is opened, currentJobId stays, one
\* 'Error: ...' line is appended to the log and the buttons are back to
\* not-running.
C8_StartErrorHandled ==
    [][({r \in net' : r.kind = "start"} # InFlight("start")
          /\ InFlight("start") # {}
          /\ {r \in net' : r.kind = "start"} = {}
          /\ nextJobId' = nextJobId)
        => /\ esOpen' = esOpen
           /\ eventSource' = eventSource
           /\ currentJobId' = currentJobId
           /\ \E m \in Messages : logOutput' = Append(logOutput, Line("Error: ", m))
           /\ ~downloadBtnDisabled'
           /\ cancelBtnDisabled']_vars

\* C8's case: the start of a second download failed: the log holds the one error
\* line and currentJobId is still the first job's.
C8_Witness ==
    /\ logOutput = <<Line("Error: ", "m")>>
    /\ currentJobId # Null
    /\ ~StartPending
    /\ ~Running
    /\ eventSource = Null

\* C9: whenever the cancel button is enabled, a call of cancelDownload sends a
\* request (currentJobId is not null) and the id in it is the id of the download
\* the latest startDownload started: that download has its id (no start request
\* is in flight) and currentJobId is the id of its open stream.
C9_CancelNamesLatestJob ==
    ~cancelBtnDisabled =>
        /\ currentJobId # Null
        /\ ~StartPending
        /\ currentJobId = eventSource

\* C10: the client is in the running state exactly when a start request is in
\* flight or a progress stream is open; the two buttons are never both enabled or
\* both disabled; at most one EventSource is open, the one the global references.
C10_RunningIffBusy ==
    /\ Running <=> (StartPending \/ eventSource # Null)
    /\ downloadBtnDisabled # cancelBtnDisabled
    /\ Cardinality(esOpen) <= 1
    /\ esOpen = IF eventSource = Null THEN {} ELSE {eventSource}

\* C10's case: the second download is running with its stream open.
C10_Witness ==
    /\ Running
    /\ eventSource # Null
    /\ eventSource > 1
    /\ ~StartPending

====
